---- MODULE Spec2Model ----
(***************************************************************************)
(* Note lifecycle of the DestructNote backend: creation (POST /api/notes), *)
(* the two reveal surfaces (GET /api/notes/:id, POST /note/:id/reveal),    *)
(* the web page load (GET /note/:id), the deferred content scrub and the   *)
(* expiry sweep, over one shared store.                                    *)
(*                                                                         *)
(* Every await on the store is a suspension point, so a handler is a       *)
(* sequence of atomic steps, one per store call; the code that follows an  *)
(* await up to the next one (or the response) belongs to the step of that  *)
(* store call.                                                             *)
(***************************************************************************)
EXTENDS Integers, FiniteSets, Sequences, Bags, TLC

\* ---------------------------------------------------------------- bounds
MaxInFlight == 2       \* reveal requests between their lookup and their update
MaxNow == 31           \* last day the clock reaches
MaxPosts == 2          \* clicks on one page that reach its listener

\* A note content a client delivers (the scenario of the specification).
SampleContent == "hello"

\* ------------------------------------------------------ program constants
FREE_NOTE_LIMIT == 5
DAYS_UNTIL_EXPIRY == 30
Sentinel == "[DESTROYED]"

\* The ids db.note.create hands out, in this order; a request may name any
\* of them, created or not.
NoteIds == {1, 2}
Devices == {"d1"}
\* createNoteRequestSchema accepts any string of 1..10000 characters, the
\* sentinel text included.
Contents == {SampleContent, Sentinel}
\* The clock is observed after a step of exactly the retention window and
\* after a step of one day more.
TickSteps == {DAYS_UNTIL_EXPIRY, DAYS_UNTIL_EXPIRY + 1}

VARIABLES
    notes,      \* note table: id -> row
    usage,      \* noteUsage table: sequence of rows, the index is the row id
    nextId,     \* next fresh note id
    now,        \* clock, in days
    timers,     \* pending setTimeout scrubs: id -> how many
    pending,    \* bag of reveal requests between lookup and update
    creates,    \* requests of the usage-record handlers in flight
    last,       \* the most recent outcome: a response, or a sweep pass's return
    wins,       \* history: id -> reveal requests that answered 200
    orig,       \* history: the content each note was created with
    made,       \* history: device -> notes ever created for it
    page        \* the browser tab that opened a note's web page

vars == <<notes, usage, nextId, now, timers, pending, creates, last, wins, orig, made, page>>

NoRow == [exists |-> FALSE, content |-> "", viewed |-> FALSE, createdAt |-> 0]
NoBody == ""

Row(c, t) == [exists |-> TRUE, content |-> c, viewed |-> FALSE, createdAt |-> t]

\* A response.  kind: "api" (GET /api/notes/:id), "web" (POST
\* /note/:id/reveal), "page" (GET /note/:id).  body: the note content
\* the response carries (NoBody if none).  found, seen: the row state and the
\* content the handler's lookup returned.  flipped: the request's update
\* changed viewed from false to true.  late: a reveal of the same id had
\* already answered 200 when this request looked the note up.
Resp(kind, id, status, body, found, seen, flipped, late) ==
    [kind |-> kind, id |-> id, status |-> status, body |-> body,
     found |-> found, seen |-> seen, flipped |-> flipped, late |-> late,
     count |-> 0, isPremium |-> FALSE, canCreate |-> FALSE]

\* The response of POST /api/notes: {id} with 200, or an error status.
CreateResp(id, status) ==
    Resp("create", id, status, NoBody, "n/a", "", FALSE, FALSE)

\* The response of GET /api/notes/usage/:deviceId: {count, isPremium,
\* canCreate}, always with 200 (raised: the body is the one of the catch).
UsageResp(n, p, cc, raised) ==
    [Resp("usage", 0, 200, NoBody, IF raised THEN "error" ELSE "n/a", "",
          FALSE, FALSE)
        EXCEPT !.count = n, !.isPremium = p, !.canCreate = cc]

\* The response of POST /api/notes/upgrade: {success, isPremium}.
UpgradeResp(status, p) ==
    [Resp("upgrade", 0, status, NoBody, "n/a", "", FALSE, FALSE)
        EXCEPT !.isPremium = p]

\* What a pass of cleanupExpiredNotes returns: result.count, or 0 from its
\* catch (raised: the deleteMany threw).
SweepRet(n, ok) ==
    [Resp("sweep", 0, 0, NoBody, IF ok THEN "n/a" ELSE "error", "", FALSE, FALSE)
        EXCEPT !.count = n]

NoResp == Resp("none", 0, 0, NoBody, "none", "", FALSE, FALSE)

\* What the page shows in note-content: nothing, or the text decryptContent
\* made of the embedded ciphertext and the key of the URL fragment.
NoText == [visible |-> FALSE, cipher |-> "", key |-> ""]

\* The browser tab before it has opened a page.  loaded: "closed", "static"
\* (a page without the script) or "script".  fetch: "idle", "sent" (the POST
\* is on its way) or "looked" (the server is between its lookup and its
\* update).  response: the status of the last response the script got, 0
\* when it has none.  req: the server's request record while fetch is
\* "looked".
NoPage ==
    [loaded |-> "closed", id |-> 0, embedded |-> "", key |-> "none",
     listener |-> FALSE, section |-> FALSE, disabled |-> FALSE,
     error |-> "", shown |-> NoText, fetch |-> "idle", response |-> 0,
     posts |-> 0,
     req |-> [kind |-> "none", id |-> 0, content |-> "", late |-> FALSE]]

Init ==
    /\ notes = [i \in NoteIds |-> NoRow]
    /\ usage = << >>
    /\ nextId = 1
    /\ now = 0
    /\ timers = [i \in NoteIds |-> 0]
    /\ pending = EmptyBag
    /\ creates = {}
    /\ last = NoResp
    /\ wins = [i \in NoteIds |-> 0]
    /\ orig = [i \in NoteIds |-> ""]
    /\ made = [d \in Devices |-> 0]
    /\ page = NoPage

\* The store as earlier requests left it: the device has created all but one
\* or all of its free notes, and those notes are gone (swept after the
\* retention window).
InitUsed ==
    /\ notes = [i \in NoteIds |-> NoRow]
    /\ \E k \in {FREE_NOTE_LIMIT - 1, FREE_NOTE_LIMIT} :
          usage = [d \in 1..Cardinality(Devices) |->
                      [deviceId |-> CHOOSE x \in Devices : TRUE,
                       count |-> k, isPremium |-> FALSE]]
    /\ nextId = 1
    /\ now = 0
    /\ timers = [i \in NoteIds |-> 0]
    /\ pending = EmptyBag
    /\ creates = {}
    /\ last = NoResp
    /\ wins = [i \in NoteIds |-> 0]
    /\ orig = [i \in NoteIds |-> ""]
    /\ made = [d \in Devices |-> usage[1].count]
    /\ page = NoPage

\* ------------------------------------------------------------- the store

\* db.note.update({where: {id}, data}): throws when the row is missing or the
\* store is unavailable (the scrub's catch: "Note might have been deleted").
UpdateThrows(tbl, id, ok) == ~ok \/ ~tbl[id].exists

SetViewed(tbl, id) == [tbl EXCEPT ![id].viewed = TRUE]


\* Mutant: the overwrite replaces the row's other columns by their defaults.
SetContentResetsViewed(tbl, id, c) ==
    [tbl EXCEPT ![id].content = c, ![id].viewed = FALSE]

SetContent(tbl, id, c) == [tbl EXCEPT ![id].content = c]

\* The newest usage row of a device (findFirst, orderBy id desc), 0 if none.
UsageOf(d) ==
    LET S == {u \in 1..Len(usage) : usage[u].deviceId = d}
    IN  IF S = {} THEN 0 ELSE CHOOSE u \in S : \A v \in S : v <= u

\* -------------------------------------------------------------- the clock
\* Days pass: by then every request in flight has been answered and every
\* timer set (5 seconds) has fired.
Tick ==
    /\ \A i \in NoteIds : timers[i] = 0
    /\ pending = EmptyBag
    /\ creates = {}
    /\ \E d \in TickSteps :
          /\ now + d <= MaxNow
          /\ now' = now + d
    /\ UNCHANGED <<notes, usage, nextId, timers, pending, creates, last, wins, orig, made, page>>

\* ------------------------------------------------ the subscription service
\* An expires_date of an entitlement: null, the empty string, a text that is
\* no date, or the date of a day.
ExpiresDate(kind, day) == [kind |-> kind, day |-> day]

ExpiresDates ==
    {ExpiresDate("null", 0), ExpiresDate("empty", 0), ExpiresDate("invalid", 0)}
    \cup {ExpiresDate("date", now + k) : k \in {-1, 0, 1}}

\* What a call of the subscriber endpoint comes to: no API key, a timeout
\* (abort after 3 s), a non-OK status, a thrown error, or a subscriber with
\* or without a premium entitlement.
SubscriberInfos ==
    {[outcome |-> o, premium |-> FALSE, expires |-> ExpiresDate("null", 0)] :
        o \in {"nokey", "timeout", "nonok", "throws", "ok"}}
    \cup {[outcome |-> "ok", premium |-> TRUE, expires |-> e] : e \in ExpiresDates}

IsRevenueCatConfigured(r) == r.outcome # "nokey"

\* getSubscriberInfo: the subscriber, or null.
GetSubscriberInfo(r) == IF r.outcome = "ok" THEN "data" ELSE "null"

\* `expires_date` is truthy: neither null nor the empty string.
Truthy(e) == e.kind \notin {"null", "empty"}

\* new Date(expires_date) < new Date(): false for a text that is no date
\* (Invalid Date compares false with everything).
DateIsPast(e) == e.kind = "date" /\ e.day < now

\* Mutant: a missing subscriber counts as premium.
HasActivePremiumFailsOpen(r) ==
    IF GetSubscriberInfo(r) = "null" THEN TRUE
    ELSE IF ~r.premium THEN FALSE
    ELSE IF Truthy(r.expires) /\ DateIsPast(r.expires) THEN FALSE
    ELSE TRUE

HasActivePremium(r) ==
    IF GetSubscriberInfo(r) = "null" THEN FALSE
    ELSE IF ~r.premium THEN FALSE
    ELSE IF Truthy(r.expires) /\ DateIsPast(r.expires) THEN FALSE
    ELSE TRUE

\* The answer getOrCreateUsage acts on: the service is configured and
\* reports an active premium.
Verified(r) == IsRevenueCatConfigured(r) /\ HasActivePremium(r)

\* Mutant: the service is consulted for premium records too.
ShouldVerifyAlways(verifySubscription, isPremium) == verifySubscription

\* getOrCreateUsage consults the service: on request, and only for a record
\* that is not premium.
ShouldVerify(verifySubscription, isPremium) == verifySubscription /\ ~isPremium

\* The limit check of POST /api/notes.
LimitReached(isPremium, count) == ~isPremium /\ count >= FREE_NOTE_LIMIT

\* ------------------------------------------------- POST /api/notes (create)
\* A creation request in flight: its inputs, its position and the handler's
\* local `usage` (uid, count, isPremium) as last read from the store.
FreeSlot == CHOOSE n \in 1..(Cardinality(creates) + 1) : \A c \in creates : c.n # n

CreateReq(d, content, pc, uid, count, isPremium) ==
    [n |-> FreeSlot, deviceId |-> d, content |-> content, pc |-> pc,
     uid |-> uid, count |-> count, isPremium |-> isPremium, id |-> 0]

\* getOrCreateUsage, first store call: findFirst for the device.
CreateFind(d, content, ok) ==
    /\ IF ~ok
       THEN /\ UNCHANGED creates                    \* catch: 500
            /\ last' = CreateResp(0, 500)
       ELSE /\ LET u == UsageOf(d) IN
               creates' = creates \cup
                  {IF u = 0
                   THEN CreateReq(d, content, "mkusage", 0, 0, FALSE)
                   ELSE CreateReq(d, content, "verify", u, usage[u].count,
                                  usage[u].isPremium)}
            /\ UNCHANGED last
    /\ UNCHANGED <<notes, usage, nextId, now, timers, pending, wins, orig, made, page>>

\* getOrCreateUsage, no record found: create the lifetime record.
CreateUsage(c, ok) ==
    /\ c \in creates
    /\ c.pc = "mkusage"
    /\ IF ~ok
       THEN /\ creates' = creates \ {c}             \* catch: 500
            /\ last' = CreateResp(0, 500)
            /\ UNCHANGED usage
       ELSE /\ usage' = Append(usage,
                   [deviceId |-> c.deviceId, count |-> 0, isPremium |-> FALSE])
            /\ creates' = (creates \ {c}) \cup
                   {[c EXCEPT !.pc = "verify", !.uid = Len(usage) + 1]}
            /\ UNCHANGED last
    /\ UNCHANGED <<notes, nextId, now, timers, pending, wins, orig, made, page>>

\* Mutant: the limit check is count > FREE_NOTE_LIMIT.
CreateVerifyOffByOne(c, rc, ok) ==
    /\ c \in creates
    /\ c.pc = "verify"
    /\ IF ~c.isPremium /\ rc
       THEN IF ~ok
            THEN /\ creates' = creates \ {c}
                 /\ last' = CreateResp(0, 500)
                 /\ UNCHANGED usage
            ELSE /\ usage' = [usage EXCEPT ![c.uid].isPremium = TRUE]
                 /\ creates' = (creates \ {c}) \cup
                       {[c EXCEPT !.pc = "insert", !.isPremium = TRUE,
                                  !.count = usage[c.uid].count]}
                 /\ UNCHANGED last
       ELSE /\ UNCHANGED usage
            /\ IF ~c.isPremium /\ c.count > FREE_NOTE_LIMIT
               THEN /\ creates' = creates \ {c}
                    /\ last' = CreateResp(0, 403)
               ELSE /\ creates' = (creates \ {c}) \cup
                          {[c EXCEPT !.pc = "insert"]}
                    /\ UNCHANGED last
    /\ UNCHANGED <<notes, nextId, now, timers, pending, wins, orig, made, page>>

\* getOrCreateUsage, subscription check (rc: the service is configured and
\* reports an active premium), then the handler's limit check.
CreateVerify(c, rc, ok) ==
    /\ c \in creates
    /\ c.pc = "verify"
    /\ IF ShouldVerify(TRUE, c.isPremium) /\ rc
       THEN IF ~ok
            THEN /\ creates' = creates \ {c}        \* catch: 500
                 /\ last' = CreateResp(0, 500)
                 /\ UNCHANGED usage
            ELSE /\ usage' = [usage EXCEPT ![c.uid].isPremium = TRUE]
                 /\ creates' = (creates \ {c}) \cup
                       {[c EXCEPT !.pc = "insert", !.isPremium = TRUE,
                                  !.count = usage[c.uid].count]}
                 /\ UNCHANGED last
       ELSE /\ UNCHANGED usage
            /\ IF LimitReached(c.isPremium, c.count)
               THEN /\ creates' = creates \ {c}     \* 403 LIMIT_REACHED
                    /\ last' = CreateResp(0, 403)
               ELSE /\ creates' = (creates \ {c}) \cup
                          {[c EXCEPT !.pc = "insert"]}
                    /\ UNCHANGED last
    /\ UNCHANGED <<notes, nextId, now, timers, pending, wins, orig, made, page>>

\* db.note.create: a fresh id, viewed false, createdAt now (column defaults).
CreateInsert(c, ok) ==
    /\ c \in creates
    /\ c.pc = "insert"
    /\ IF ~ok
       THEN /\ creates' = creates \ {c}             \* catch: 500
            /\ last' = CreateResp(0, 500)
            /\ UNCHANGED <<notes, nextId, orig, made, page>>
       ELSE /\ nextId \in NoteIds
            /\ notes' = [notes EXCEPT ![nextId] = Row(c.content, now)]
            /\ orig' = [orig EXCEPT ![nextId] = c.content]
            /\ made' = [made EXCEPT ![c.deviceId] = @ + 1]
            /\ nextId' = nextId + 1
            /\ creates' = (creates \ {c}) \cup
                   {[c EXCEPT !.pc = "count", !.id = nextId]}
            /\ UNCHANGED last
    /\ UNCHANGED <<usage, now, timers, pending, wins, page>>

\* db.noteUsage.update count increment, then the 200 response with the id.
CreateCount(c, ok) ==
    /\ c \in creates
    /\ c.pc = "count"
    /\ creates' = creates \ {c}
    /\ IF ~ok
       THEN /\ UNCHANGED usage                      \* catch: 500
            /\ last' = CreateResp(0, 500)
       ELSE /\ usage' = [usage EXCEPT ![c.uid].count = @ + 1]
            /\ last' = CreateResp(c.id, 200)
    /\ UNCHANGED <<notes, nextId, now, timers, pending, wins, orig, made, page>>

\* ------------------------------------------ GET /api/notes/usage/:deviceId
\* getOrCreateUsage(deviceId, true), first store call.  A failure of any
\* store call of the handler is answered by its catch: count 0, not premium,
\* canCreate true.
UsageFind(d, ok) ==
    /\ IF ~ok
       THEN /\ UNCHANGED creates
            /\ last' = UsageResp(0, FALSE, TRUE, TRUE)
       ELSE /\ LET u == UsageOf(d) IN
               creates' = creates \cup
                  {IF u = 0
                   THEN CreateReq(d, "", "usage-mkusage", 0, 0, FALSE)
                   ELSE CreateReq(d, "", "usage-verify", u, usage[u].count,
                                  usage[u].isPremium)}
            /\ UNCHANGED last
    /\ UNCHANGED <<notes, usage, nextId, now, timers, pending, wins, orig, made, page>>

UsageCreate(c, ok) ==
    /\ c \in creates
    /\ c.pc = "usage-mkusage"
    /\ IF ~ok
       THEN /\ creates' = creates \ {c}
            /\ last' = UsageResp(0, FALSE, TRUE, TRUE)
            /\ UNCHANGED usage
       ELSE /\ usage' = Append(usage,
                   [deviceId |-> c.deviceId, count |-> 0, isPremium |-> FALSE])
            /\ creates' = (creates \ {c}) \cup
                   {[c EXCEPT !.pc = "usage-verify", !.uid = Len(usage) + 1]}
            /\ UNCHANGED last
    /\ UNCHANGED <<notes, nextId, now, timers, pending, wins, orig, made, page>>

\* Mutant: canCreate is computed with count <= FREE_NOTE_LIMIT.
UsageVerifyOffByOne(c, rc, ok) ==
    /\ c \in creates
    /\ c.pc = "usage-verify"
    /\ creates' = creates \ {c}
    /\ IF ShouldVerify(TRUE, c.isPremium) /\ rc
       THEN IF ~ok
            THEN /\ last' = UsageResp(0, FALSE, TRUE, TRUE)
                 /\ UNCHANGED usage
            ELSE /\ usage' = [usage EXCEPT ![c.uid].isPremium = TRUE]
                 /\ last' = UsageResp(usage[c.uid].count, TRUE, TRUE, FALSE)
       ELSE /\ UNCHANGED usage
            /\ last' = UsageResp(c.count, c.isPremium,
                                 c.isPremium \/ c.count <= FREE_NOTE_LIMIT, FALSE)
    /\ UNCHANGED <<notes, nextId, now, timers, pending, wins, orig, made, page>>

\* The subscription check of getOrCreateUsage, then the response: count and
\* isPremium of the record, canCreate from the two.
UsageVerify(c, rc, ok) ==
    /\ c \in creates
    /\ c.pc = "usage-verify"
    /\ creates' = creates \ {c}
    /\ IF ShouldVerify(TRUE, c.isPremium) /\ rc
       THEN IF ~ok
            THEN /\ last' = UsageResp(0, FALSE, TRUE, TRUE)
                 /\ UNCHANGED usage
            ELSE /\ usage' = [usage EXCEPT ![c.uid].isPremium = TRUE]
                 /\ last' = UsageResp(usage[c.uid].count, TRUE, TRUE, FALSE)
       ELSE /\ UNCHANGED usage
            /\ last' = UsageResp(c.count, c.isPremium,
                                 c.isPremium \/ c.count < FREE_NOTE_LIMIT, FALSE)
    /\ UNCHANGED <<notes, nextId, now, timers, pending, wins, orig, made, page>>

\* ----------------------------------------------- POST /api/notes/upgrade
\* getOrCreateUsage(deviceId): no subscription check.  A failure of any
\* store call is answered 500 {success: false, isPremium: false}.
UpgradeFind(d, ok) ==
    /\ IF ~ok
       THEN /\ UNCHANGED creates
            /\ last' = UpgradeResp(500, FALSE)
       ELSE /\ LET u == UsageOf(d) IN
               creates' = creates \cup
                  {IF u = 0
                   THEN CreateReq(d, "", "upgrade-mkusage", 0, 0, FALSE)
                   ELSE CreateReq(d, "", "upgrade-update", u, usage[u].count,
                                  usage[u].isPremium)}
            /\ UNCHANGED last
    /\ UNCHANGED <<notes, usage, nextId, now, timers, pending, wins, orig, made, page>>

UpgradeCreate(c, ok) ==
    /\ c \in creates
    /\ c.pc = "upgrade-mkusage"
    /\ IF ~ok
       THEN /\ creates' = creates \ {c}
            /\ last' = UpgradeResp(500, FALSE)
            /\ UNCHANGED usage
       ELSE /\ usage' = Append(usage,
                   [deviceId |-> c.deviceId, count |-> 0, isPremium |-> FALSE])
            /\ creates' = (creates \ {c}) \cup
                   {[c EXCEPT !.pc = "upgrade-update", !.uid = Len(usage) + 1]}
            /\ UNCHANGED last
    /\ UNCHANGED <<notes, nextId, now, timers, pending, wins, orig, made, page>>

\* db.noteUsage.update isPremium true, then the 200 response.
UpgradeUpdate(c, ok) ==
    /\ c \in creates
    /\ c.pc = "upgrade-update"
    /\ creates' = creates \ {c}
    /\ IF ~ok
       THEN /\ last' = UpgradeResp(500, FALSE)
            /\ UNCHANGED usage
       ELSE /\ usage' = [usage EXCEPT ![c.uid].isPremium = TRUE]
            /\ last' = UpgradeResp(200, TRUE)
    /\ UNCHANGED <<notes, nextId, now, timers, pending, wins, orig, made, page>>

\* ---------------------------------------------------------- read requests
\* A reveal request between its lookup and its update: the surface, the id
\* and the handler's local note.content.
Pend(kind, id, content, late) ==
    [kind |-> kind, id |-> id, content |-> content, late |-> late]

Reveals == {"api", "web"}

Found(row) == IF ~row.exists THEN "none" ELSE IF row.viewed THEN "viewed" ELSE "unread"


\* Mutant: the lookup without the early return for a viewed note.
ApiLookupStatusNoViewedCheck(row, ok) ==
    IF ~ok THEN 500
    ELSE IF ~row.exists THEN 404
    ELSE 0

\* findUnique and the two early returns, as a status (0: go on to the update).
ApiLookupStatus(row, ok) ==
    IF ~ok THEN 500
    ELSE IF ~row.exists THEN 404
    ELSE IF row.viewed THEN 410
    ELSE 0

\* Mutant: a missing row is answered like a viewed one.
WebLookupStatusMissingIsViewed(row, ok) ==
    IF ~ok THEN 500
    ELSE IF ~row.exists \/ row.viewed THEN 410
    ELSE 0

WebLookupStatus(row, ok) ==
    IF ~ok THEN 500
    ELSE IF ~row.exists THEN 404
    ELSE IF row.viewed THEN 410
    ELSE 0

\* Mutant: the page load tests only that the row exists.
PageLookupStatusIgnoresViewed(row, ok) ==
    IF ~ok THEN 500
    ELSE IF ~row.exists THEN 404
    ELSE 200

PageLookupStatus(row, ok) ==
    IF ~ok THEN 500
    ELSE IF ~row.exists THEN 404
    ELSE IF row.viewed THEN 410
    ELSE 200


\* Mutant: the timer is set before the update is awaited, so it is set even
\* when the update throws.
ApiWriteEffectTimerFirst(tbl, tm, id, ok) ==
    IF UpdateThrows(tbl, id, ok)
    THEN [notes |-> tbl, timers |-> [tm EXCEPT ![id] = @ + 1], status |-> 500]
    ELSE [notes |-> SetViewed(tbl, id),
          timers |-> [tm EXCEPT ![id] = @ + 1], status |-> 200]

\* Mutant: the reveal marks the note viewed and sets no timer.
ApiWriteEffectNoTimer(tbl, tm, id, ok) ==
    IF UpdateThrows(tbl, id, ok)
    THEN [notes |-> tbl, timers |-> tm, status |-> 500]
    ELSE [notes |-> SetViewed(tbl, id), timers |-> tm, status |-> 200]

\* The update of viewed, the setTimeout and the response, as the store, the
\* timers and the status they leave.
ApiWriteEffect(tbl, tm, id, ok) ==
    IF UpdateThrows(tbl, id, ok)
    THEN [notes |-> tbl, timers |-> tm, status |-> 500]
    ELSE [notes |-> SetViewed(tbl, id),
          timers |-> [tm EXCEPT ![id] = @ + 1], status |-> 200]


\* Mutant: a failure that follows the committed update is answered by the
\* catch: viewed is set, the status is 500.
WebWriteEffectFlipThenFail(tbl, tm, id, ok) ==
    IF ~tbl[id].exists
    THEN [notes |-> tbl, timers |-> tm, status |-> 500]
    ELSE IF ~ok
    THEN [notes |-> SetViewed(tbl, id), timers |-> tm, status |-> 500]
    ELSE [notes |-> SetViewed(tbl, id),
          timers |-> [tm EXCEPT ![id] = @ + 1], status |-> 200]

\* Mutant: the web reveal overwrites the content at once instead of setting
\* the timer.
WebWriteEffectScrubsNow(tbl, tm, id, ok) ==
    IF UpdateThrows(tbl, id, ok)
    THEN [notes |-> tbl, timers |-> tm, status |-> 500]
    ELSE [notes |-> SetContent(SetViewed(tbl, id), id, Sentinel),
          timers |-> tm, status |-> 200]

WebWriteEffect(tbl, tm, id, ok) ==
    IF UpdateThrows(tbl, id, ok)
    THEN [notes |-> tbl, timers |-> tm, status |-> 500]
    ELSE [notes |-> SetViewed(tbl, id),
          timers |-> [tm EXCEPT ![id] = @ + 1], status |-> 200]


\* Mutant: the timer is set when the lookup finds an unread note, before the
\* update of viewed.
ApiLookupSetsTimer(id, ok) ==
    /\ LET st == ApiLookupStatus(notes[id], ok) IN
       IF st = 0
       THEN /\ pending' = pending (+)
                   SetToBag({Pend("api", id, notes[id].content, wins[id] > 0)})
            /\ timers' = [timers EXCEPT ![id] = @ + 1]
            /\ UNCHANGED last
       ELSE /\ last' = Resp("api", id, st, NoBody,
                            IF ok THEN Found(notes[id]) ELSE "error", "",
                            FALSE, wins[id] > 0)
            /\ UNCHANGED <<pending, timers>>
    /\ UNCHANGED <<notes, usage, nextId, now, creates, wins, orig, made, page>>

\* GET /api/notes/:id up to its first await's result.
ApiLookup(id, ok) ==
    /\ LET st == ApiLookupStatus(notes[id], ok) IN
       IF st = 0
       THEN /\ pending' = pending (+)
                   SetToBag({Pend("api", id, notes[id].content, wins[id] > 0)})
            /\ UNCHANGED last
       ELSE /\ last' = Resp("api", id, st, NoBody,
                            IF ok THEN Found(notes[id]) ELSE "error", "",
                            FALSE, wins[id] > 0)
            /\ UNCHANGED pending
    /\ UNCHANGED <<notes, usage, nextId, now, timers, creates, wins, orig, made, page>>

\* GET /api/notes/:id from the update to the response.
ApiWrite(p, ok) ==
    /\ BagIn(p, pending)
    /\ p.kind = "api"
    /\ LET e == ApiWriteEffect(notes, timers, p.id, ok) IN
       /\ notes' = e.notes
       /\ timers' = e.timers
       /\ last' = Resp("api", p.id, e.status,
                       IF e.status = 200 THEN p.content ELSE NoBody,
                       "unread", p.content,
                       e.status = 200 /\ ~notes[p.id].viewed, p.late)
       /\ wins' = IF e.status = 200 THEN [wins EXCEPT ![p.id] = @ + 1] ELSE wins
    /\ pending' = pending (-) SetToBag({p})
    /\ UNCHANGED <<usage, nextId, now, creates, orig, made, page>>

\* POST /note/:id/reveal up to its first await's result.
RevealLookup(id, ok) ==
    /\ LET st == WebLookupStatus(notes[id], ok) IN
       IF st = 0
       THEN /\ pending' = pending (+)
                   SetToBag({Pend("web", id, notes[id].content, wins[id] > 0)})
            /\ UNCHANGED last
       ELSE /\ last' = Resp("web", id, st, NoBody,
                            IF ok THEN Found(notes[id]) ELSE "error", "",
                            FALSE, wins[id] > 0)
            /\ UNCHANGED pending
    /\ UNCHANGED <<notes, usage, nextId, now, timers, creates, wins, orig, made>>

\* The lookup of a POST /note/:id/reveal sent by another visitor.
WebLookup(id, ok) == RevealLookup(id, ok) /\ UNCHANGED page

\* POST /note/:id/reveal from the update to the response {success: true}.
RevealWrite(p, ok) ==
    /\ BagIn(p, pending)
    /\ p.kind = "web"
    /\ LET e == WebWriteEffect(notes, timers, p.id, ok) IN
       /\ notes' = e.notes
       /\ timers' = e.timers
       /\ last' = Resp("web", p.id, e.status, NoBody, "unread", p.content,
                       e.status = 200 /\ ~notes[p.id].viewed, p.late)
       /\ wins' = IF e.status = 200 THEN [wins EXCEPT ![p.id] = @ + 1] ELSE wins
    /\ pending' = pending (-) SetToBag({p})
    /\ UNCHANGED <<usage, nextId, now, creates, orig, made>>

\* The update of a POST /note/:id/reveal whose sender is not waiting for it.
WebWrite(p, ok) == RevealWrite(p, ok) /\ UNCHANGED page


\* Mutant: the page load consumes the note, as a one-step display would.
PageLoadConsumes(id, ok) ==
    /\ LET st == PageLookupStatus(notes[id], ok) IN
       /\ last' = Resp("page", id, st,
                       IF st = 200 THEN notes[id].content ELSE NoBody,
                       IF ok THEN Found(notes[id]) ELSE "error",
                       IF st = 200 THEN notes[id].content ELSE "",
                       FALSE, wins[id] > 0)
       /\ notes' = IF st = 200 THEN SetViewed(notes, id) ELSE notes
    /\ UNCHANGED <<usage, nextId, now, timers, pending, creates, wins, orig, made, page>>

\* GET /note/:id: one lookup, then the rendered page; the page for an unread
\* note embeds note.content as encryptedContent in its script.
ServePage(id, ok) ==
    /\ LET st == PageLookupStatus(notes[id], ok) IN
       last' = Resp("page", id, st,
                    IF st = 200 THEN notes[id].content ELSE NoBody,
                    IF ok THEN Found(notes[id]) ELSE "error",
                    IF st = 200 THEN notes[id].content ELSE "",
                    FALSE, wins[id] > 0)
    /\ UNCHANGED <<notes, usage, nextId, now, timers, pending, creates, wins, orig, made>>

\* GET /note/:id asked by a visitor other than the modelled tab.
PageLoad(id, ok) == ServePage(id, ok) /\ UNCHANGED page

\* ------------------------------------------------- the served page's script
\* The URL fragment of the tab: absent, the note's key, another key, or text
\* that atob rejects.
Keys == {"none", "good", "wrong", "malformed"}

\* decryptContent: AES-CTR has no integrity check, so any well-formed key
\* yields a text (the plaintext only under the note's key); base64ToUint8Array
\* throws on a fragment that is not base64.
DecryptThrows(key) == key = "malformed"

DecryptContent(cipher, key) == [visible |-> TRUE, cipher |-> cipher, key |-> key]

\* Mutant: the script registers the click listener before it looks at the key.
OnLoadListensFirst(id, embedded, key) ==
    [NoPage EXCEPT !.loaded = "script", !.id = id, !.embedded = embedded,
                   !.key = key, !.listener = TRUE, !.section = TRUE,
                   !.error = IF key = "none" THEN "Missing decryption key in URL"
                             ELSE ""]

\* window.onload of the page served for an unread note: without a key the
\* reveal section is hidden, the error box shown, and the function returns
\* before addEventListener.
OnLoad(id, embedded, key) ==
    IF key = "none"
    THEN [NoPage EXCEPT !.loaded = "script", !.id = id, !.embedded = embedded,
                        !.key = key, !.section = FALSE,
                        !.error = "Missing decryption key in URL"]
    ELSE [NoPage EXCEPT !.loaded = "script", !.id = id, !.embedded = embedded,
                        !.key = key, !.section = TRUE, !.listener = TRUE]

\* Mutant: the catch block shows the error and leaves the button disabled.
CatchKeepsDisabled(pg, status) ==
    [pg EXCEPT !.fetch = "idle", !.response = status,
               !.error = "Failed to reveal note. Please try again."]

\* The listener's catch block: the button is enabled again and the error
\* box shown.  status is 0 when fetch itself rejected.
Catch(pg, status) ==
    [pg EXCEPT !.fetch = "idle", !.response = status, !.disabled = FALSE,
               !.error = "Failed to reveal note. Please try again."]

\* The listener after fetch resolved: a status outside 200..299 throws; then
\* the reveal section is hidden and the embedded content decrypted and shown;
\* a throw of decryptContent lands in the same catch block.
AfterResponse(pg, status) ==
    IF status # 200 THEN Catch(pg, status)
    ELSE IF DecryptThrows(pg.key)
         THEN [Catch(pg, status) EXCEPT !.section = FALSE]
         ELSE [pg EXCEPT !.fetch = "idle", !.response = status,
                         !.section = FALSE,
                         !.shown = DecryptContent(pg.embedded, pg.key)]

\* The tab opens /note/:id#key: the server's GET /note/:id, then the page in
\* the tab; only the page for an unread note carries the script.
Open(id, key, ok) ==
    /\ page.loaded = "closed"
    /\ ServePage(id, ok)
    /\ page' = IF PageLookupStatus(notes[id], ok) = 200
               THEN OnLoad(id, notes[id].content, key)
               ELSE [NoPage EXCEPT !.loaded = "static", !.id = id, !.key = key]

\* A click on the reveal button: it reaches the listener only if one is
\* registered and the button is displayed and enabled.  The listener disables
\* the button and calls fetch.
Click ==
    /\ page.listener
    /\ page.section
    /\ ~page.disabled
    /\ page' = [page EXCEPT !.disabled = TRUE, !.fetch = "sent",
                            !.posts = @ + 1]
    /\ UNCHANGED <<notes, usage, nextId, now, timers, pending, creates, last,
                   wins, orig, made>>

\* The server's lookup for the tab's POST; an early return is the response.
FetchLookup(ok) ==
    /\ page.fetch = "sent"
    /\ RevealLookup(page.id, ok)
    /\ LET st == WebLookupStatus(notes[page.id], ok) IN
       page' = IF st = 0
               THEN [page EXCEPT !.fetch = "looked",
                        !.req = Pend("web", page.id, notes[page.id].content,
                                     wins[page.id] > 0)]
               ELSE AfterResponse(page, st)

\* The server's update for the tab's POST, and its response.
FetchWrite(ok) ==
    /\ page.fetch = "looked"
    /\ RevealWrite(page.req, ok)
    /\ page' = AfterResponse([page EXCEPT !.req = NoPage.req],
                             WebWriteEffect(notes, timers, page.id, ok).status)

\* fetch rejects (the network failed): the request was lost, or its response
\* was, and then the server finishes the request without the tab.
FetchFails ==
    /\ page.fetch # "idle"
    /\ page' = Catch([page EXCEPT !.req = NoPage.req], 0)
    /\ UNCHANGED <<notes, usage, nextId, now, timers, pending, creates, last,
                   wins, orig, made>>

\* ------------------------------------------------------ the deferred scrub

\* Mutant: the overwrite is an updateMany over every viewed note.
ScrubFireAllViewed(id, ok) ==
    /\ timers[id] > 0
    /\ timers' = [timers EXCEPT ![id] = @ - 1]
    /\ notes' = IF UpdateThrows(notes, id, ok)
                THEN notes
                ELSE [i \in NoteIds |->
                        IF notes[i].exists /\ notes[i].viewed
                        THEN [notes[i] EXCEPT !.content = Sentinel]
                        ELSE notes[i]]
    /\ UNCHANGED <<usage, nextId, now, pending, creates, last, wins, orig, made, page>>

\* Mutant: the callback has no try/catch, so a failed write is an unhandled
\* rejection that ends the process, with its timers and requests in flight.
ScrubFireUncaught(id, ok) ==
    /\ timers[id] > 0
    /\ IF UpdateThrows(notes, id, ok)
       THEN /\ timers' = [i \in NoteIds |-> 0]
            /\ pending' = EmptyBag
            /\ creates' = {}
            /\ UNCHANGED notes
       ELSE /\ timers' = [timers EXCEPT ![id] = @ - 1]
            /\ notes' = SetContent(notes, id, Sentinel)
            /\ UNCHANGED <<pending, creates>>
    /\ UNCHANGED <<usage, nextId, now, last, wins, orig, made, page>>

\* The setTimeout callback of either reveal handler (the two are the same
\* code): overwrite the content, swallow any failure.
ScrubFire(id, ok) ==
    /\ timers[id] > 0
    /\ timers' = [timers EXCEPT ![id] = @ - 1]
    /\ notes' = IF UpdateThrows(notes, id, ok)
                THEN notes
                ELSE SetContent(notes, id, Sentinel)
    /\ UNCHANGED <<usage, nextId, now, pending, creates, last, wins, orig, made, page>>

\* -------------------------------------------------------- the expiry sweep

\* Mutant: the viewed filter is inverted, so the sweep deletes the viewed
\* notes older than the retention window and keeps the unread ones.
ExpiredViewedOnly(row) ==
    row.exists /\ row.viewed /\ row.createdAt < now - DAYS_UNTIL_EXPIRY

\* Mutant: the where clause has no viewed filter, so the sweep deletes
\* every note older than the retention window.
ExpiredAnyNote(row) ==
    row.exists /\ row.createdAt < now - DAYS_UNTIL_EXPIRY

\* Mutant: the cutoff comparison is lte, so a note of exactly the retention
\* window's age is deleted.
ExpiredAtCutoff(row) ==
    row.exists /\ ~row.viewed /\ row.createdAt <= now - DAYS_UNTIL_EXPIRY

\* The where clause of the sweep's deleteMany: viewed false, createdAt lt
\* the cutoff (now minus the retention window).
Expired(row) ==
    row.exists /\ ~row.viewed /\ row.createdAt < now - DAYS_UNTIL_EXPIRY

\* Mutant: the catch reports the failure by returning -1.
SweepSignalsFailure(ok) ==
    /\ notes' = IF ok
                THEN [i \in NoteIds |-> IF Expired(notes[i]) THEN NoRow ELSE notes[i]]
                ELSE notes
    /\ last' = IF ok
               THEN SweepRet(Cardinality({i \in NoteIds : Expired(notes[i])}), TRUE)
               ELSE SweepRet(-1, FALSE)
    /\ UNCHANGED <<usage, nextId, now, timers, pending, creates, wins, orig, made, page>>

\* cleanupExpiredNotes: one deleteMany, whose count of deleted rows is
\* returned; a failure is logged and dropped, and 0 is returned.
Sweep(ok) ==
    /\ notes' = IF ok
                THEN [i \in NoteIds |-> IF Expired(notes[i]) THEN NoRow ELSE notes[i]]
                ELSE notes
    /\ last' = IF ok
               THEN SweepRet(Cardinality({i \in NoteIds : Expired(notes[i])}), TRUE)
               ELSE SweepRet(0, FALSE)
    /\ UNCHANGED <<usage, nextId, now, timers, pending, creates, wins, orig, made, page>>

\* ------------------------------------------------------------ the process
\* The process exits (shutdown's process.exit, or a crash) and is started
\* again: the timers set and the handlers in flight are gone, the store
\* stays.  The pass of cleanupExpiredNotes that startCleanupJob runs at the
\* start is a Sweep step.
Restart ==
    /\ timers' = [i \in NoteIds |-> 0]
    /\ pending' = EmptyBag
    /\ creates' = {}
    /\ UNCHANGED <<notes, usage, nextId, now, last, wins, orig, made, page>>

\* ---------------------------------------------------------- specifications
InFlight == BagCardinality(pending)

PendingReqs == BagToSet(pending)

\* A device sends its creation requests one at a time, and no more of them
\* than there are ids left.
CanCreate(d) ==
    /\ \A c \in creates : c.deviceId # d
    /\ nextId + Cardinality(creates) \in NoteIds

\* The store answers every call.
Next ==
    \/ Tick
    \/ \E d \in Devices, c \in Contents : CanCreate(d) /\ CreateFind(d, c, TRUE)
    \/ \E c \in creates : CreateUsage(c, TRUE)
    \/ \E c \in creates, rc \in BOOLEAN : CreateVerify(c, rc, TRUE)
    \/ \E c \in creates : CreateInsert(c, TRUE)
    \/ \E c \in creates : CreateCount(c, TRUE)
    \/ InFlight < MaxInFlight /\ \E id \in NoteIds : ApiLookup(id, TRUE)
    \/ \E p \in PendingReqs : ApiWrite(p, TRUE)
    \/ InFlight < MaxInFlight /\ \E id \in NoteIds : WebLookup(id, TRUE)
    \/ \E p \in PendingReqs : WebWrite(p, TRUE)
    \/ \E id \in NoteIds : PageLoad(id, TRUE)
    \/ \E id \in NoteIds : ScrubFire(id, TRUE)
    \/ Sweep(TRUE)

Spec == Init /\ [][Next]_vars

\* Any call on the note table made by a read surface, the scrub or the sweep
\* may fail (the store is unavailable): the catch branches run.
NextFault ==
    \/ Tick
    \/ \E d \in Devices, c \in Contents : CanCreate(d) /\ CreateFind(d, c, TRUE)
    \/ \E c \in creates : CreateUsage(c, TRUE)
    \/ \E c \in creates, rc \in BOOLEAN : CreateVerify(c, rc, TRUE)
    \/ \E c \in creates : CreateInsert(c, TRUE)
    \/ \E c \in creates : CreateCount(c, TRUE)
    \/ InFlight < MaxInFlight /\ \E id \in NoteIds, ok \in BOOLEAN : ApiLookup(id, ok)
    \/ \E p \in PendingReqs, ok \in BOOLEAN : ApiWrite(p, ok)
    \/ InFlight < MaxInFlight /\ \E id \in NoteIds, ok \in BOOLEAN : WebLookup(id, ok)
    \/ \E p \in PendingReqs, ok \in BOOLEAN : WebWrite(p, ok)
    \/ \E id \in NoteIds, ok \in BOOLEAN : PageLoad(id, ok)
    \/ \E id \in NoteIds, ok \in BOOLEAN : ScrubFire(id, ok)
    \/ \E ok \in BOOLEAN : Sweep(ok)

SpecFault == Init /\ [][NextFault]_vars

\* The same server on the store of a device at its free limit: the device's
\* usage record exists, so getOrCreateUsage never creates one.
NextUsed ==
    \/ Tick
    \/ \E d \in Devices, c \in Contents : CanCreate(d) /\ CreateFind(d, c, TRUE)
    \/ \E c \in creates, rc \in BOOLEAN : CreateVerify(c, rc, TRUE)
    \/ \E c \in creates : CreateInsert(c, TRUE)
    \/ \E c \in creates : CreateCount(c, TRUE)
    \/ InFlight < MaxInFlight /\ \E id \in NoteIds : ApiLookup(id, TRUE)
    \/ \E p \in PendingReqs : ApiWrite(p, TRUE)
    \/ InFlight < MaxInFlight /\ \E id \in NoteIds : WebLookup(id, TRUE)
    \/ \E p \in PendingReqs : WebWrite(p, TRUE)
    \/ \E id \in NoteIds : PageLoad(id, TRUE)
    \/ \E id \in NoteIds : ScrubFire(id, TRUE)
    \/ Sweep(TRUE)

SpecUsed == InitUsed /\ [][NextUsed]_vars

\* The creation path alone, with the requests of a device overlapping, from
\* a fresh store or from the store of a device at its free limit.  The
\* store answers every call; the create of a second usage record of a
\* device goes through or is refused, as the noteUsage table allows.
InitQuota == Init \/ InitUsed

CanRace == nextId + Cardinality(creates) \in NoteIds

NextRace ==
    \/ \E d \in Devices, c \in Contents : CanRace /\ CreateFind(d, c, TRUE)
    \/ \E c \in creates, ok \in BOOLEAN :
          (ok \/ UsageOf(c.deviceId) # 0) /\ CreateUsage(c, ok)
    \/ \E c \in creates, rc \in BOOLEAN : CreateVerify(c, rc, TRUE)
    \/ \E c \in creates : CreateInsert(c, TRUE)
    \/ \E c \in creates : CreateCount(c, TRUE)

SpecRace == InitQuota /\ [][NextRace]_vars

\* The three handlers of the usage record, one request of a device at a
\* time; any store call may fail, and the subscription service answers in
\* any of its ways.
CanAsk(d) == \A c \in creates : c.deviceId # d

NextQuota ==
    \/ \E d \in Devices, c \in Contents, ok \in BOOLEAN :
          CanCreate(d) /\ CreateFind(d, c, ok)
    \/ \E c \in creates, ok \in BOOLEAN : CreateUsage(c, ok)
    \/ \E c \in creates, r \in SubscriberInfos, ok \in BOOLEAN :
          CreateVerify(c, Verified(r), ok)
    \/ \E c \in creates, ok \in BOOLEAN : CreateInsert(c, ok)
    \/ \E c \in creates, ok \in BOOLEAN : CreateCount(c, ok)
    \/ \E d \in Devices, ok \in BOOLEAN : CanAsk(d) /\ UsageFind(d, ok)
    \/ \E c \in creates, ok \in BOOLEAN : UsageCreate(c, ok)
    \/ \E c \in creates, r \in SubscriberInfos, ok \in BOOLEAN :
          UsageVerify(c, Verified(r), ok)
    \/ \E d \in Devices, ok \in BOOLEAN : CanAsk(d) /\ UpgradeFind(d, ok)
    \/ \E c \in creates, ok \in BOOLEAN : UpgradeCreate(c, ok)
    \/ \E c \in creates, ok \in BOOLEAN : UpgradeUpdate(c, ok)

SpecQuota == InitQuota /\ [][NextQuota]_vars

\* The store answers every call; the process may be restarted at any moment.
NextRestart ==
    \/ Next
    \/ Restart

SpecRestart == Init /\ [][NextRestart]_vars

\* startCleanupJob: a pass at the start and one per interval, for as long
\* as the process lives; a pass may fail.  The store is available again and
\* again: a pass that can delete something eventually succeeds.
NextSchedule ==
    \/ Tick
    \/ \E d \in Devices, c \in Contents : CanCreate(d) /\ CreateFind(d, c, TRUE)
    \/ \E c \in creates : CreateUsage(c, TRUE)
    \/ \E c \in creates, rc \in BOOLEAN : CreateVerify(c, rc, TRUE)
    \/ \E c \in creates : CreateInsert(c, TRUE)
    \/ \E c \in creates : CreateCount(c, TRUE)
    \/ InFlight < MaxInFlight /\ \E id \in NoteIds : ApiLookup(id, TRUE)
    \/ \E p \in PendingReqs : ApiWrite(p, TRUE)
    \/ InFlight < MaxInFlight /\ \E id \in NoteIds : WebLookup(id, TRUE)
    \/ \E p \in PendingReqs : WebWrite(p, TRUE)
    \/ \E id \in NoteIds : PageLoad(id, TRUE)
    \/ \E id \in NoteIds : ScrubFire(id, TRUE)
    \/ \E ok \in BOOLEAN : Sweep(ok)

LiveSweep == Init /\ [][NextSchedule]_vars /\ WF_vars(Sweep(TRUE))

\* The process keeps running and the store accepts the write: a timer that
\* was set fires (setTimeout has no cancellation path).
LiveSpec == Spec /\ \A id \in NoteIds : WF_vars(ScrubFire(id, TRUE))

\* One visitor's tab and the server: notes are created, the tab opens a
\* note's page with or without a key and its reveal button is clicked; any
\* call on the note table may fail and the network may drop the tab's
\* request.  A request the tab gave up on is finished by the server alone.
Orphan(p) == page.fetch # "looked" \/ p # page.req \/ CopiesIn(p, pending) > 1

NextClient ==
    \/ \E d \in Devices, c \in Contents : CanCreate(d) /\ CreateFind(d, c, TRUE)
    \/ \E c \in creates : CreateUsage(c, TRUE)
    \/ \E c \in creates, rc \in BOOLEAN : CreateVerify(c, rc, TRUE)
    \/ \E c \in creates : CreateInsert(c, TRUE)
    \/ \E c \in creates : CreateCount(c, TRUE)
    \/ \E id \in NoteIds, key \in Keys, ok \in BOOLEAN : Open(id, key, ok)
    \/ page.posts < MaxPosts /\ Click
    \/ \E ok \in BOOLEAN : FetchLookup(ok)
    \/ \E ok \in BOOLEAN : FetchWrite(ok)
    \/ FetchFails
    \/ \E p \in PendingReqs, ok \in BOOLEAN : Orphan(p) /\ WebWrite(p, ok)
    \/ \E id \in NoteIds, ok \in BOOLEAN : ScrubFire(id, ok)

SpecClient == Init /\ [][NextClient]_vars

\* ------------------------------------------------------------------ claims

\* C1: a reveal call (either surface) that looks a note up after a reveal of
\* the same id has answered 200 answers 410; hence of any sequence of
\* non-overlapping reveal calls at most one answers 200.
C1_LateRevealIsGone ==
    (last.kind \in Reveals /\ last.late) => last.status = 410

C1_Witness ==
    last.kind = "web" /\ last.late /\ last.status = 410

\* C2: of the reveal requests racing for one note exactly one answers 200:
\* no note has two reveal requests that answered 200.
C2_OneWinner ==
    \A id \in NoteIds : wins[id] <= 1

\* C3: a response carries the stored content of a note only if the same
\* request flipped that note's viewed flag from false to true.
C3_NoPeek ==
    last.body # NoBody => last.flipped

\* C4: a page load changes no note and sets no timer, and a step that flips a
\* note's viewed flag is the update of a reveal request for that note.
C4_PageLoadMutatesNothing ==
    [][/\ (last' # last /\ last'.kind = "page") =>
              (notes' = notes /\ timers' = timers)
       /\ \A id \in NoteIds :
              (notes[id].exists /\ ~notes[id].viewed
                 /\ notes'[id].exists /\ notes'[id].viewed)
              => (last'.kind \in Reveals /\ last'.id = id /\ last'.flipped)]_vars

C4_Witness ==
    /\ last.kind = "page" /\ last.status = 200
    /\ notes[last.id].exists /\ ~notes[last.id].viewed
    /\ \E id \in NoteIds : notes[id].exists /\ notes[id].viewed

\* C5: a note is created with viewed false, and no step sets a viewed flag
\* that is true back to false.
C5_ViewedMonotonic ==
    [][\A id \in NoteIds :
          /\ (~notes[id].exists /\ notes'[id].exists) => ~notes'[id].viewed
          /\ (notes[id].exists /\ notes[id].viewed /\ notes'[id].exists)
                => notes'[id].viewed]_vars

C5_Witness ==
    \E id \in NoteIds :
        /\ notes[id].exists /\ notes[id].viewed
        /\ notes[id].content = Sentinel /\ orig[id] # Sentinel
        /\ timers[id] = 0 /\ wins[id] > 0

\* C6: a stored note only moves from unread to viewed with its content kept,
\* and from viewed to viewed with the sentinel as content; an unread note
\* holds the content it was created with, whatever the clock says.
C6_StateOrdering ==
    [][\A id \in NoteIds :
          /\ (notes[id].exists /\ notes'[id].exists) =>
                \/ notes'[id] = notes[id]
                \/ /\ ~notes[id].viewed
                   /\ notes'[id] = [notes[id] EXCEPT !.viewed = TRUE]
                \/ /\ notes[id].viewed
                   /\ notes'[id] = [notes[id] EXCEPT !.content = Sentinel]
          /\ (notes'[id].exists /\ ~notes'[id].viewed) =>
                notes'[id].content = orig'[id]]_vars

C6_Witness ==
    /\ notes[1].exists /\ notes[1].viewed
    /\ notes[1].content = Sentinel /\ orig[1] # Sentinel
    /\ notes[2].exists /\ ~notes[2].viewed /\ notes[2].content = orig[2]
    /\ notes[2].createdAt = 0 /\ now = DAYS_UNTIL_EXPIRY

\* C7: in the state a successful reveal responds in, the note is viewed, its
\* stored content is the content it was created with and the scrub is pending;
\* the stored content changes only when a pending scrub fires.
C7_GraceAfterReveal ==
    [][\A id \in NoteIds :
          /\ wins'[id] > wins[id] =>
                /\ notes'[id].viewed
                /\ notes'[id].content = orig[id]
                /\ timers'[id] > 0
          /\ (notes[id].exists /\ notes'[id].exists
                /\ notes'[id].content # notes[id].content)
                => timers'[id] < timers[id]]_vars

\* C8: after a successful reveal the stored content of the note is eventually
\* the sentinel.
C8_ScrubEventually ==
    \A id \in NoteIds :
        (wins[id] > 0) ~> (notes[id].exists /\ notes[id].content = Sentinel)

C8_Witness ==
    \E id \in NoteIds :
        /\ wins[id] > 0 /\ orig[id] # Sentinel
        /\ notes[id].exists /\ notes[id].content = Sentinel

\* C9: every step a reveal request of one surface takes is the step the other
\* surface's handler takes from the same state: the same status at the
\* lookup, and the same store, timers and status at the update.
OtherLookupStatus(kind, row, ok) ==
    IF kind = "api" THEN WebLookupStatus(row, ok) ELSE ApiLookupStatus(row, ok)

OtherWriteEffect(kind, tbl, tm, id, ok) ==
    IF kind = "api" THEN WebWriteEffect(tbl, tm, id, ok)
    ELSE ApiWriteEffect(tbl, tm, id, ok)

C9_SurfacesAgree ==
    [][/\ \A p \in PendingReqs :
            pending' = pending (-) SetToBag({p}) =>
               \E ok \in BOOLEAN :
                  LET e == OtherWriteEffect(p.kind, notes, timers, p.id, ok) IN
                  /\ notes' = e.notes
                  /\ timers' = e.timers
                  /\ last'.status = e.status
       /\ \A p \in BagToSet(pending') :
            pending' = pending (+) SetToBag({p}) =>
               /\ OtherLookupStatus(p.kind, notes[p.id], TRUE) = 0
               /\ notes' = notes /\ timers' = timers
       /\ (pending' = pending /\ last' # last /\ last'.kind \in Reveals) =>
               /\ \E ok \in BOOLEAN :
                     last'.status =
                        OtherLookupStatus(last'.kind, notes[last'.id], ok)
               /\ notes' = notes /\ timers' = timers]_vars

C9_Witness ==
    /\ last.kind = "web" /\ last.status = 200 /\ last.flipped
    /\ \E id \in NoteIds : id # last.id /\ wins[id] > 0 /\ timers[id] > 0

\* C10: the status of a response follows from the row its lookup found (none:
\* 404, viewed: 410, unread: 200), the 200 body of the JSON API is the content
\* found at the lookup, and no 404 or 410 response carries content.
C10_OutcomeMapping ==
    last.kind # "none" =>
        /\ last.found = "none" => last.status = 404
        /\ last.found = "viewed" => last.status = 410
        /\ last.found = "unread" => last.status = 200
        /\ (last.kind = "api" /\ last.status = 200) => last.body = last.seen
        /\ last.status \in {404, 410} => last.body = NoBody

\* C11: a sweep pass deletes exactly the notes that are unread and strictly
\* older than the retention window, leaves every other note as it was and
\* returns the number of notes it deleted; no other step deletes a note.
IsOverdue(row) ==
    row.exists /\ ~row.viewed /\ now - row.createdAt > DAYS_UNTIL_EXPIRY

C11_SweepSelectivity ==
    [][LET gone == {i \in NoteIds : notes[i].exists /\ ~notes'[i].exists}
           due  == {i \in NoteIds : IsOverdue(notes[i])}
       IN  /\ gone # {} =>
                 /\ gone = due
                 /\ last' = SweepRet(Cardinality(gone), TRUE)
                 /\ \A i \in NoteIds \ gone : notes'[i] = notes[i]
           /\ (last' # last /\ last'.kind = "sweep" /\ last'.found # "error") =>
                 /\ gone = due
                 /\ last'.count = Cardinality(gone)
                 /\ \A i \in NoteIds \ gone : notes'[i] = notes[i]]_vars

\* A pass has deleted one note; the other note, as old but viewed, is kept.
C11_Witness ==
    /\ last = SweepRet(1, TRUE)
    /\ \E i \in NoteIds :
          /\ ~notes[i].exists /\ orig[i] # ""
          /\ \E j \in NoteIds :
                /\ notes[j].exists /\ notes[j].viewed
                /\ now - notes[j].createdAt > DAYS_UNTIL_EXPIRY

\* C12: a reveal request whose note the sweep deleted between its lookup and
\* its update does not answer 500 and leaves the store and the timers as the
\* sweep left them.
C12_SweptRevealIsNotAnError ==
    [][\A p \in PendingReqs :
          (pending' = pending (-) SetToBag({p}) /\ ~notes[p.id].exists) =>
             /\ last'.status # 500
             /\ notes' = notes
             /\ timers' = timers]_vars

\* C13: a scrub whose store write fails ends there: the timer is spent, the
\* store is as it was with no row created, no response or return value
\* changes, and the process keeps its other timers and its requests in
\* flight; a scrub whose write succeeds changes the content of its note only.
C13_ScrubAbsorbsFailure ==
    [][\A id \in NoteIds :
          timers'[id] < timers[id] =>
             /\ timers' = [timers EXCEPT ![id] = @ - 1]
             /\ \/ notes' = notes
                \/ /\ notes[id].exists
                   /\ notes' = [notes EXCEPT ![id].content = Sentinel]
             /\ \A i \in NoteIds : notes'[i].exists = notes[i].exists
             /\ last' = last
             /\ pending' = pending
             /\ creates' = creates]_vars

\* Every scrub of a revealed note has fired and failed: the content is still
\* the original one; a reveal of the other note is still in flight.
C13_Witness ==
    \E id \in NoteIds :
        /\ wins[id] > 0 /\ timers[id] = 0
        /\ notes[id].exists /\ notes[id].viewed
        /\ notes[id].content = orig[id] /\ orig[id] # Sentinel
        /\ \E p \in PendingReqs : p.id # id

\* C14: a reveal request that ends with 500 has changed no note and set no
\* timer: neither its lookup nor the step that answers 500 does.
C14_FailedRevealMutatesNothing ==
    [][/\ (/\ last'.kind \in Reveals
           /\ last'.status = 500
           /\ \/ last' # last
              \/ BagCardinality(pending') < BagCardinality(pending))
          => (notes' = notes /\ timers' = timers)
       /\ BagCardinality(pending') > BagCardinality(pending)
          => (notes' = notes /\ timers' = timers)]_vars

\* The update of a web reveal failed: the note is still unread, with its
\* content and without a timer.
C14_Witness ==
    /\ last.kind = "web" /\ last.status = 500 /\ last.found = "unread"
    /\ notes[last.id].exists /\ ~notes[last.id].viewed
    /\ notes[last.id].content = orig[last.id]
    /\ timers[last.id] = 0

\* C15: a step that takes a timer away without its scrub writing leaves the
\* store as it was; and while a revealed note holds its original content
\* with no scrub pending, the note is not changed, no reveal request for it
\* is in flight, and every reveal call and page load for it answers 410
\* without content.
LostScrub(id) ==
    /\ notes[id].exists /\ notes[id].viewed
    /\ timers[id] = 0
    /\ notes[id].content = orig[id] /\ orig[id] # Sentinel

C15_LostScrubIsSafe ==
    [][\A id \in NoteIds :
          /\ timers'[id] < timers[id] =>
                \/ notes' = notes
                \/ notes' = [notes EXCEPT ![id].content = Sentinel]
          /\ LostScrub(id) =>
                /\ notes'[id] = notes[id]
                /\ \A p \in BagToSet(pending') : p.id # id
                /\ (last' # last /\ last'.id = id
                      /\ last'.kind \in Reveals \cup {"page"})
                   => (last'.status = 410 /\ last'.body = NoBody)]_vars

\* After the restart that dropped the scrub, a reveal call of the note
\* answered 410.
C15_Witness ==
    /\ last.kind = "api" /\ last.status = 410 /\ last.body = NoBody
    /\ LostScrub(last.id)
    /\ wins[last.id] = 1

\* C16: a sweep pass whose deleteMany fails returns 0 and changes no note, no
\* timer and no request in flight; a pass stays possible whenever a note is
\* unread and older than the retention window, and a pass that succeeds
\* leaves no such note, whatever passes failed before it.
C16_SweepFailureNotFatal ==
    /\ [][/\ (last' # last /\ last'.kind = "sweep" /\ last'.found = "error") =>
                /\ last'.count = 0
                /\ notes' = notes
                /\ timers' = timers
                /\ pending' = pending
                /\ creates' = creates
          /\ (last' # last /\ last'.kind = "sweep" /\ last'.found # "error") =>
                \A i \in NoteIds : ~IsOverdue(notes'[i])]_vars
    /\ []((\E i \in NoteIds : IsOverdue(notes[i])) => ENABLED <<Sweep(TRUE)>>_vars)

\* A pass has failed: the overdue unread note is still stored, and a reveal
\* request is still in flight.
C16_Witness ==
    /\ last = SweepRet(0, FALSE)
    /\ \E i \in NoteIds : IsOverdue(notes[i])
    /\ PendingReqs # {}

\* The histories of an id: no note was ever created with it; its note was
\* deleted by the sweep; its note was revealed and its scrub has fired.
NeverExisted(id) == ~notes[id].exists /\ orig[id] = ""

Swept(id) == ~notes[id].exists /\ orig[id] # ""

Scrubbed(id) ==
    /\ notes[id].exists /\ notes[id].viewed /\ notes[id].content = Sentinel
    /\ wins[id] > 0 /\ timers[id] = 0

\* A reveal call or a page load answers in this step from its lookup of id.
AnswersAtLookup(id) ==
    /\ last' # last
    /\ last'.kind \in Reveals \cup {"page"}
    /\ last'.id = id
    /\ pending' = pending

\* C17 as stated: a reveal call or page load for an id that never existed,
\* whose note was swept, or whose note was revealed and scrubbed answers 404.
C17_AllHistoriesNotFound ==
    [][\A id \in NoteIds :
          (AnswersAtLookup(id) /\ (NeverExisted(id) \/ Swept(id) \/ Scrubbed(id)))
          => last'.status = 404]_vars

\* C17, amended: a reveal call or page load for an id that never existed and
\* for an id whose note was swept answer alike, 404 without content; for an
\* id whose note was revealed and scrubbed they answer 410 without content.
C17_MissingRowsAnswerAlike ==
    [][\A id \in NoteIds :
          AnswersAtLookup(id) =>
             /\ (NeverExisted(id) \/ Swept(id)) =>
                   (last'.status = 404 /\ last'.body = NoBody)
             /\ Scrubbed(id) =>
                   (last'.status = 410 /\ last'.body = NoBody)]_vars

\* The web reveal of a swept note answered 404, as the page load of an id
\* never created would; the other note is revealed and scrubbed.
C17_Witness ==
    /\ last.kind = "web" /\ last.status = 404 /\ Swept(last.id)
    /\ \E id \in NoteIds : Scrubbed(id) /\ orig[id] # Sentinel

\* C18: the insert of a creation request stores, under an id never used
\* before, a row with viewed false and the content the request delivered; its
\* 200 response carries that id; the first 200 reveal of the JSON API
\* returns the content delivered; and a creation request of a device that is
\* not premium and has count at the limit answers 403, stores no note and
\* changes no usage record (403 is answered in no other case).
Handled(c) == c \in creates /\ c \notin creates'

C18_Creation ==
    [][/\ \A i \in NoteIds :
            (~notes[i].exists /\ notes'[i].exists) =>
               /\ orig[i] = ""
               /\ \E c \in creates :
                     /\ Handled(c) /\ c.pc = "insert"
                     /\ notes'[i] = [exists |-> TRUE, content |-> c.content,
                                     viewed |-> FALSE, createdAt |-> now]
                     /\ orig'[i] = c.content
       /\ (last' # last /\ last'.kind = "create" /\ last'.status = 200) =>
               \E c \in creates :
                  /\ Handled(c) /\ c.pc = "count"
                  /\ last'.id = c.id
                  /\ orig[c.id] = c.content
       /\ \A i \in NoteIds :
            (wins[i] = 0 /\ wins'[i] = 1 /\ last'.kind = "api") =>
               last'.body = orig[i]
       /\ \A c \in creates :
            (/\ Handled(c) /\ c.pc = "verify"
             /\ ~c.isPremium /\ c.count >= FREE_NOTE_LIMIT
             /\ ~usage'[c.uid].isPremium)
            => /\ last' = CreateResp(0, 403)
               /\ notes' = notes /\ nextId' = nextId
               /\ usage' = usage
               /\ \A x \in creates' : x.n # c.n
       /\ (last' # last /\ last'.kind = "create" /\ last'.status = 403) =>
               /\ notes' = notes /\ usage' = usage
               /\ \E c \in creates :
                     /\ Handled(c) /\ c.pc = "verify"
                     /\ c.count >= FREE_NOTE_LIMIT
                     /\ ~usage[c.uid].isPremium]_vars

\* The device's fifth note was created and its first reveal returned the
\* content delivered; the next creation request was answered 403.
C18_Witness ==
    /\ last = CreateResp(0, 403)
    /\ \E u \in 1..Len(usage) :
          usage[u].count = FREE_NOTE_LIMIT /\ ~usage[u].isPremium
    /\ \E i \in NoteIds :
          /\ notes[i].exists /\ notes[i].viewed /\ wins[i] = 1
          /\ orig[i] = SampleContent

\* C19: the step that flips a note's viewed flag from false to true is the
\* step in which a reveal request for that note answers 200; a step that
\* answers 404, 410 or 500 (or a page load) flips no viewed flag.
Flips(id) ==
    /\ notes[id].exists /\ ~notes[id].viewed
    /\ notes'[id].exists /\ notes'[id].viewed

C19_NoConsumeWithoutDelivery ==
    [][/\ \A id \in NoteIds :
            Flips(id) =>
               /\ last'.kind \in Reveals /\ last'.id = id /\ last'.status = 200
               /\ wins'[id] = wins[id] + 1
               /\ BagCardinality(pending') < BagCardinality(pending)
       /\ (/\ last'.kind \in Reveals \cup {"page"}
           /\ last'.status \in {404, 410, 500}
           /\ \/ last' # last
              \/ BagCardinality(pending') < BagCardinality(pending))
          => \A id \in NoteIds : ~Flips(id)]_vars

\* A reveal answered 200 and flipped the flag while a reveal of the same
\* note on the other surface is still in flight.
C19_Witness ==
    /\ last.kind = "api" /\ last.status = 200 /\ last.flipped
    /\ notes[last.id].viewed /\ wins[last.id] = 1
    /\ \E p \in PendingReqs : p.id = last.id /\ p.kind = "web"

\* C20: no step deletes the row of a viewed note, and every reveal call and
\* page load that looks a viewed note up answers 410.
C20_ViewedRowPersists ==
    [][\A id \in NoteIds :
          (notes[id].exists /\ notes[id].viewed) =>
             /\ notes'[id].exists
             /\ AnswersAtLookup(id) => last'.status = 410]_vars

\* A sweep pass ran over a revealed note older than the retention window,
\* scrubbed or with its scrub lost, and deleted nothing.
C20_Witness ==
    /\ last = SweepRet(0, TRUE)
    /\ \E id \in NoteIds :
          /\ notes[id].exists /\ notes[id].viewed /\ wins[id] > 0
          /\ now - notes[id].createdAt > DAYS_UNTIL_EXPIRY

\* C21: a scrub that fires sets the content of its own note to the sentinel
\* and changes nothing else of the store (a scrub of a note that already
\* holds the sentinel changes nothing); once every scrub pending for a
\* revealed note has fired, the note is viewed with the sentinel as content,
\* however many scrubs there were.
C21_ScrubFrame ==
    /\ [][\A id \in NoteIds :
             timers'[id] < timers[id] =>
                /\ notes[id].exists
                /\ notes' = [notes EXCEPT ![id] =
                               [exists |-> TRUE, content |-> Sentinel,
                                viewed |-> notes[id].viewed,
                                createdAt |-> notes[id].createdAt]]
                /\ notes[id].content = Sentinel => notes' = notes]_vars
    /\ [](\A id \in NoteIds :
             (wins[id] > 0 /\ timers[id] = 0) =>
                /\ notes[id].exists /\ notes[id].viewed
                /\ notes[id].content = Sentinel)

\* Two reveal requests of one note answered 200 and both their scrubs have
\* fired; the other note is revealed and its scrub is still pending.
C21_Witness ==
    \E id \in NoteIds :
        /\ wins[id] = 2 /\ timers[id] = 0
        /\ notes[id].content = Sentinel /\ orig[id] # Sentinel
        /\ \E j \in NoteIds :
              /\ j # id /\ notes[j].exists /\ notes[j].viewed
              /\ timers[j] > 0 /\ notes[j].content = orig[j]
              /\ orig[j] # Sentinel

\* C22: a device none of whose usage records is premium has had at most
\* FREE_NOTE_LIMIT notes created for it.
C22_FreeLimitHolds ==
    \A d \in Devices :
        (\A u \in 1..Len(usage) :
            usage[u].deviceId = d => ~usage[u].isPremium)
        => made[d] <= FREE_NOTE_LIMIT

\* C23: a device has at most one usage record; whenever none of its requests
\* is in flight, the count of that record is the number of notes created
\* for the device; and a count changes only by one upwards, in the step of
\* a creation request whose note is stored.
UsageRows(d) == {u \in 1..Len(usage) : usage[u].deviceId = d}

C23_UsageAccounting ==
    /\ [](\A d \in Devices :
             /\ Cardinality(UsageRows(d)) <= 1
             /\ (\A c \in creates : c.deviceId # d) =>
                   \/ UsageRows(d) = {} /\ made[d] = 0
                   \/ \E u \in UsageRows(d) : usage[u].count = made[d])
    /\ [][\A u \in 1..Len(usage) :
             usage'[u].count # usage[u].count =>
                /\ usage'[u].count = usage[u].count + 1
                /\ \E c \in creates :
                      /\ Handled(c) /\ c.pc = "count" /\ c.uid = u
                      /\ orig[c.id] = c.content]_vars

\* C24: a usage record that is premium stays premium and stays in the
\* table; a request that reads a premium record does not consult the
\* subscription service; and a creation request that reads a premium record
\* is not answered 403, whatever the count it reads.
C24_PremiumIsKept ==
    /\ [][/\ Len(usage') >= Len(usage)
          /\ \A u \in 1..Len(usage) :
                usage[u].isPremium =>
                   /\ usage'[u].isPremium
                   /\ usage'[u].deviceId = usage[u].deviceId
          /\ \A c \in creates :
                (Handled(c) /\ c.pc = "verify" /\ usage[c.uid].isPremium) =>
                   /\ last' = last
                   /\ \E x \in creates' :
                         x = [c EXCEPT !.pc = "insert"]]_vars
    /\ [](\A c \in creates :
             (c.pc \in {"verify", "usage-verify"} /\ usage[c.uid].isPremium)
             => ~ShouldVerify(TRUE, c.isPremium))

\* A device made premium (by POST /api/notes/upgrade or by a positive
\* subscription check) with its count at the limit has created a further
\* note.
C24_Witness ==
    /\ last.kind = "create" /\ last.status = 200
    /\ \E u \in 1..Len(usage) :
          /\ usage[u].isPremium
          /\ usage[u].count > FREE_NOTE_LIMIT
          /\ made[usage[u].deviceId] = usage[u].count

\* C25: a usage response that is not the one of the catch reports canCreate
\* as isPremium or count < FREE_NOTE_LIMIT, which is the negation of the
\* creation handler's limit check on the same count and isPremium; it
\* reports the count and isPremium of the device's record; the response of
\* the catch is count 0, not premium, canCreate true; both have status 200.
C25_UsageReportAgrees ==
    /\ [](last.kind = "usage" =>
             /\ last.status = 200
             /\ IF last.found = "error"
                THEN last.count = 0 /\ ~last.isPremium /\ last.canCreate
                ELSE /\ last.canCreate =
                           (last.isPremium \/ last.count < FREE_NOTE_LIMIT)
                     /\ last.canCreate =
                           ~LimitReached(last.isPremium, last.count))
    /\ [][(last'.kind = "usage" /\ last'.found # "error" /\ last' # last) =>
             \E c \in creates :
                /\ Handled(c) /\ c.pc = "usage-verify"
                /\ last'.count = usage'[c.uid].count
                /\ last'.isPremium = usage'[c.uid].isPremium]_vars

\* The usage report of a device that is not premium and at the limit:
\* canCreate is false.
C25_Witness ==
    /\ last.kind = "usage" /\ last.found # "error"
    /\ last.count = FREE_NOTE_LIMIT /\ ~last.isPremium /\ ~last.canCreate

\* C26: a note that is unread and older than the retention window is
\* eventually deleted, unless it is revealed first.
C26_OverdueIsSwept ==
    \A id \in NoteIds :
        IsOverdue(notes[id]) ~> (~notes[id].exists \/ notes[id].viewed)

\* A pass has deleted the one overdue note and kept the unread note that
\* is younger.
C26_Witness ==
    /\ last = SweepRet(1, TRUE)
    /\ \E i \in NoteIds : Swept(i)
    /\ \E j \in NoteIds :
          /\ notes[j].exists /\ ~notes[j].viewed
          /\ now - notes[j].createdAt <= DAYS_UNTIL_EXPIRY

\* ---------------------------------------------------------------- C27
FailedText == "Failed to reveal note. Please try again."

\* C27: the served page's script sends POST /note/:id/reveal only from a
\* click that reached its listener (registered, button displayed and
\* enabled), and the server starts a reveal only for a request so sent; a
\* page opened without a key has its reveal section hidden, registers no
\* listener, never posts, and no note is consumed; content appears only in
\* the step in which the tab's own POST is answered 200, and it is the
\* decryption of the embedded content; when the fetch ends otherwise (another
\* status, or no response) the error is shown, no content is displayed and
\* the button is enabled again.
C27_ClientProtocol ==
    /\ [](page.loaded = "script" /\ page.key = "none" =>
            /\ ~page.section /\ ~page.listener /\ page.posts = 0
            /\ page.error = "Missing decryption key in URL")
    /\ [](page.posts = 0 =>
            /\ page.fetch = "idle" /\ ~page.shown.visible
            /\ pending = EmptyBag
            /\ \A id \in NoteIds : ~notes[id].viewed /\ wins[id] = 0)
    /\ [](page.fetch # "idle" => page.posts > 0 /\ page.disabled)
    /\ [](page.shown.visible =>
            /\ page.response = 200 /\ wins[page.id] > 0
            /\ page.shown = DecryptContent(orig[page.id], page.key))
    /\ [][/\ page'.posts # page.posts =>
               /\ page.listener /\ page.section /\ ~page.disabled
               /\ page.key # "none"
               /\ page'.posts = page.posts + 1
               /\ page'.fetch = "sent" /\ page'.disabled
          /\ BagCardinality(pending') > BagCardinality(pending) =>
               page.fetch = "sent"
          /\ ~page.shown.visible /\ page'.shown.visible =>
               /\ page.fetch = "looked" /\ page'.response = 200
               /\ last'.kind = "web" /\ last'.id = page.id /\ last'.status = 200
               /\ notes'[page.id].viewed
               /\ page'.shown = DecryptContent(page.embedded, page.key)
          /\ page.fetch # "idle" /\ page'.fetch = "idle" /\ page'.response # 200 =>
               /\ page'.error = FailedText
               /\ ~page'.shown.visible
               /\ ~page'.disabled
               /\ \/ page'.response = 0
                  \/ /\ last'.kind = "web" /\ last'.id = page.id
                     /\ last'.status = page'.response]_vars

\* A first click failed (the error is still shown), a second one was
\* answered 200 and the content is displayed.
C27_Witness ==
    /\ page.posts = 2
    /\ page.error = FailedText
    /\ page.shown.visible
    /\ page.key = "good"

\* ---------------------------------------------------------------- C28
\* The outcomes of the subscriber call that are failures of the call.
FailedCalls == {r \in SubscriberInfos : r.outcome \in {"nokey", "timeout", "nonok", "throws"}}

\* The verify step of POST /api/notes for a record the service did not
\* upgrade: the limit is checked on the stored count and isPremium.
CreateProceeds(c) ==
    /\ usage' = usage
    /\ IF LimitReached(c.isPremium, c.count)
       THEN creates' = creates \ {c} /\ last' = CreateResp(0, 403)
       ELSE creates' = (creates \ {c}) \cup {[c EXCEPT !.pc = "insert"]}

\* The same step of the usage endpoint: the stored count and isPremium are
\* reported.
UsageProceeds(c) ==
    /\ usage' = usage
    /\ creates' = creates \ {c}
    /\ last' = UsageResp(c.count, c.isPremium,
                         c.isPremium \/ c.count < FREE_NOTE_LIMIT, FALSE)

\* C28: hasActivePremium is true only for a subscriber with a premium
\* entitlement whose expires_date is null (or empty) or does not compare as
\* earlier than now; for a missing key, a timeout, a non-OK answer or a
\* thrown error it is false; and a verify step of POST /api/notes or of the
\* usage endpoint taken on such a failure goes on with the stored count and
\* isPremium, without an error response.
C28_FailsClosed ==
    /\ [](\A r \in SubscriberInfos :
            /\ HasActivePremium(r) =>
                 /\ r.outcome = "ok" /\ r.premium
                 /\ ~Truthy(r.expires) \/ ~DateIsPast(r.expires)
            /\ r \in FailedCalls => ~HasActivePremium(r) /\ ~Verified(r))
    /\ [][\A c \in creates, r \in FailedCalls :
            /\ CreateVerify(c, Verified(r), TRUE) => CreateProceeds(c)
            /\ UsageVerify(c, Verified(r), TRUE) => UsageProceeds(c)]_vars

\* A device that is not premium has created its last free note: the service
\* was consulted on the way and the creation went on.
C28_Witness ==
    /\ last.kind = "create" /\ last.status = 200
    /\ \E u \in 1..Len(usage) :
          /\ ~usage[u].isPremium
          /\ usage[u].count = FREE_NOTE_LIMIT
          /\ made[usage[u].deviceId] = FREE_NOTE_LIMIT

====
